---- MODULE Spec2Model ----
(***************************************************************************)
(* Model of validators/validator.py: the scheduler loop (query_synapse),   *)
(* the background scoring drain (consume_organic_scoring), the organic     *)
(* request handler (process_text_validator), the liveness prober           *)
(* (check_uid / get_available_uids) and the weight committer               *)
(* (update_weights / set_weights).                                         *)
(*                                                                         *)
(* Tensors are sequences indexed by position+1 (worker uid u sits at       *)
(* index u+1).  Averages and moving averages are exact rationals <<n, d>>  *)
(* in lowest terms with d > 0; float32 rounding is not modelled.           *)
(* Python's None is the empty sequence << >> for tensors and the string    *)
(* "None" for scalars.                                                     *)
(***************************************************************************)
EXTENDS Integers, Sequences, FiniteSets, TLC

\* ------------------------------------------------------------------ bounds
\* Topology length at start-up (len(metagraph.hotkeys) when query_synapse starts).
InitN == 1
\* Largest topology a refresh may return.
MaxN == 2
\* Scheduler cycles explored by the scheduler-only specification.
MaxSteps == 23
\* Scheduler cycles explored by the whole-system specification.
MaxSysSteps == 1
\* Cap on one slot of the running accumulator, and so on any single score.
MaxTotal == 2
\* Weight commits explored (calls of update_weights).
MaxCommits == 2
\* Calls of update_weights explored by the weight committer's own specification.
MaxCalls == 4
\* Organic requests served in the whole-system specification.
MaxRequests == 2
\* Organic requests served in the handler's own specification.
MaxHandlerRequests == 1
\* Chunks one organic stream yields.
MaxChunks == 2
\* Scheduler cycles explored by the specification of the two loops under fairness.
MaxLoopSteps == 11

\* ------------------------------------------------------- program constants
iterations_per_set_weights == 12

None == << >>

\* ------------------------------------------------------------- arithmetic
RECURSIVE GCD(_, _)
GCD(a, b) == IF b = 0 THEN a ELSE GCD(b, a % b)

Abs(x) == IF x < 0 THEN -x ELSE x

\* The rational n/d in lowest terms.
Rat(n, d) ==
    LET g == GCD(Abs(n), Abs(d))
        s == IF d < 0 THEN -1 ELSE 1
    IN  <<(s * n) \div g, (s * d) \div g>>

RAdd(x, y) == Rat(x[1] * y[2] + y[1] * x[2], x[2] * y[2])
RSub(x, y) == Rat(x[1] * y[2] - y[1] * x[2], x[2] * y[2])
RMul(x, y) == Rat(x[1] * y[1], x[2] * y[2])
RDiv(x, y) == Rat(x[1] * y[2], x[2] * y[1])
RLess(x, y) == x[1] * y[2] < y[1] * x[2]
RInt(k) == <<k, 1>>

\* Elementwise tensor operations.
VAdd(a, b) == [i \in 1..Len(a) |-> a[i] + b[i]]
VZeros(n) == [i \in 1..n |-> 0]

\* tensor = scores where the code has tensor += scores.
iadd_replacing(tensor, scores) == scores

\* Lines 212 and 231, total_scores.tensor += scores: the in-place elementwise
\* addition, with no suspension between the read and the write.
iadd(tensor, scores) == VAdd(tensor, scores)
RVScale(c, v) == [i \in 1..Len(v) |-> RMul(c, v[i])]
RVAdd(a, b) == [i \in 1..Len(a) |-> RAdd(a[i], b[i])]

RECURSIVE RMinOf(_, _)
RMinOf(v, k) ==
    IF k = 1 THEN v[1]
    ELSE LET m == RMinOf(v, k - 1) IN IF RLess(v[k], m) THEN v[k] ELSE m

RECURSIVE RMaxOf(_, _)
RMaxOf(v, k) ==
    IF k = 1 THEN v[1]
    ELSE LET m == RMaxOf(v, k - 1) IN IF RLess(m, v[k]) THEN v[k] ELSE m

\* All orderings of a finite set, as sequences without repetition.
Perms(S) ==
    {p \in [1..Cardinality(S) -> S] : \A i, j \in 1..Cardinality(S) : i # j => p[i] # p[j]}

VARIABLES
    \* ---- module globals and query_synapse locals
    metagraph,              \* topology snapshot: its length n (uids are 0..n-1)
    moving_average_scores,  \* None or a tensor of rationals
    total_scores,           \* TotalScores.tensor
    steps_passed,
    pcS,                    \* where the scheduler loop is suspended
    available_uids,         \* dict uid -> axon built by get_available_uids
    selected_validator,     \* "text" | "image" | "None"
    uid_list,               \* shuffled uid list handed to get_and_score
    \* ---- observations of the scheduler
    probe,                  \* outcome of each worker's probe in this cycle's fan-out
    ledger,                 \* weights argument of the last subtensor.set_weights call
    commitLog,              \* steps_passed at every call of update_weights
    lastTotal, lastSteps,   \* arguments of the last update_weights call
    lastScores, prevScores, \* scores argument of the last two set_weights calls
    prevMA, prev2MA,        \* moving_average_scores before the last two set_weights calls
    \* ---- observations of the accumulator
    dispatch_count,         \* executions of line 231 (total_scores.tensor += scores)
    dispatch_sum,           \* sum of the score tensors added at line 231
    organic_sum,            \* sum of the score tensors added at line 212
    \* ---- shared between the handler and the drain
    organic_scoring_tasks,  \* the set of deferred scoring tasks (task ids)
    tasks,                  \* every task created so far: tasks[id] is its record
    \* ---- consume_organic_scoring
    pcD,                    \* where the drain is suspended
    waiting_on,             \* the tasks handed to asyncio.wait
    \* ---- process_text_validator (one request in flight)
    pcH,                    \* where the handler is suspended
    request,                \* the request: access key and body
    status,                 \* status of the response object (0: none yet)
    prepared,               \* response.prepare has sent the headers
    messages_dict,
    uid_to_response,
    content,                \* the chunk being written
    written,                \* the byte strings written to the response, in order
    \* ---- observations of the handler
    yielded,                \* the (uid, chunk) pairs organic has yielded
    organic_metagraph,      \* the topology handed to organic (0: not called)
    failed,                 \* what raised in the handler's try block ("None": nothing)
    task_of,                \* the task this request created (0: none)
    tasks_at_receive,       \* number of tasks created before this request
    served                  \* requests received so far

schedVars == <<metagraph, moving_average_scores, total_scores, steps_passed, pcS,
               available_uids, selected_validator, uid_list>>
obsVars == <<probe, ledger, commitLog, lastTotal, lastSteps, lastScores, prevScores,
             prevMA, prev2MA>>
taskVars == <<organic_scoring_tasks, tasks>>
drainVars == <<pcD, waiting_on>>
handlerVars == <<pcH, request, status, prepared, messages_dict, uid_to_response, content,
                 written, yielded, organic_metagraph, failed, task_of, tasks_at_receive,
                 served>>
sumVars == <<dispatch_count, dispatch_sum, organic_sum>>
restVars == <<taskVars, drainVars, handlerVars>>
commitVars == <<moving_average_scores, ledger, commitLog, lastTotal, lastSteps,
                lastScores, prevScores, prevMA, prev2MA>>

\* ------------------------------------------------------- liveness prober
ProbeOutcomes == {"success", "negative", "timeout", "error"}

Uids(n) == 0..(n - 1)
Axon(uid) == <<"axon", uid>>

\* An exception leaving a coroutine.
Raised == <<"raised">>

\* check_uid returning the axon whatever the reply says.
check_uid_any_reply(axon, outcome) ==
    IF outcome = "error" THEN None ELSE axon

\* check_uid: the axon when the IsAlive reply is a success, None when the reply
\* is negative or late, and None when the dendrite call raises (the except
\* clause logs and returns None).
check_uid(axon, outcome) ==
    IF outcome = "error" THEN None
    ELSE IF outcome = "success" THEN axon
    ELSE None

\* get_available_uids: one check_uid per uid of the topology, gathered (an
\* exception of any of them leaves the gather), and the dict of those that
\* did not return None.
get_available_uids(n, outcomes) ==
    LET results == [uid \in Uids(n) |-> check_uid(Axon(uid), outcomes[uid + 1])]
        alive == {uid \in Uids(n) : results[uid] # None}
    IN  IF \E uid \in Uids(n) : results[uid] = Raised
        THEN Raised
        ELSE [uid \in alive |-> results[uid]]

\* ------------------------------------------------------- weight committer
Alpha == <<3, 10>>

\* set_weights with the moving average started from zeros instead of a clone of
\* the scores.
set_weights_from_zeros(scores, ma) ==
    LET start == IF ma = None THEN [i \in 1..Len(scores) |-> RInt(0)] ELSE ma
    IN  RVAdd(RVScale(Alpha, scores), RVScale(RSub(RInt(1), Alpha), start))

\* set_weights: the new moving_average_scores.
set_weights(scores, ma) ==
    LET start == IF ma = None THEN scores ELSE ma
    IN  RVAdd(RVScale(Alpha, scores), RVScale(RSub(RInt(1), Alpha), start))

avg_scores(total, steps) == [i \in 1..Len(total) |-> Rat(total[i], steps + 1)]

normalized_scores(avg) ==
    LET min_score == RMinOf(avg, Len(avg))
        max_score == RMaxOf(avg, Len(avg))
    IN  IF RSub(max_score, min_score) # RInt(0)
        THEN [i \in 1..Len(avg) |->
                 RDiv(RSub(avg[i], min_score), RSub(max_score, min_score))]
        ELSE [i \in 1..Len(avg) |-> RInt(0)]

\* update_weights handing the min-max normalized scores to set_weights.
update_weights_normalized(total, steps) == normalized_scores(avg_scores(total, steps))

\* update_weights: the scores it hands to set_weights.
update_weights(total, steps) == avg_scores(total, steps)

\* What one update_weights(total, steps) call assigns, up to and including the
\* call of subtensor.set_weights.
CommitEffects(total, steps) ==
    LET scores == update_weights(total, steps)
        ma == set_weights(scores, moving_average_scores)
    IN  /\ moving_average_scores' = ma
        /\ ledger' = ma
        /\ commitLog' = Append(commitLog, steps)
        /\ lastTotal' = total
        /\ lastSteps' = steps
        /\ lastScores' = scores
        /\ prevScores' = lastScores
        /\ prevMA' = moving_average_scores
        /\ prev2MA' = prevMA

\* update_weights dividing the accumulator in place (total_scores /= steps + 1
\* rounded down) and so handing the caller's tensor back changed.
CommitScalingAccumulator(total, steps) ==
    /\ CommitEffects(total, steps)
    /\ total_scores' = [i \in 1..Len(total) |-> total[i] \div (steps + 1)]

\* The state change of one update_weights(total, steps) call on the
\* accumulator total: avg_scores (line 158) and the moving average (lines 147,
\* 150) are new tensors, so the tensor passed in is left as it is.
Commit(total, steps) ==
    /\ CommitEffects(total, steps)
    /\ total_scores' = total

\* --------------------------------------------------------- scheduler loop
\* The locals of a cycle are dead once the cycle ends (each is assigned again
\* before it is read): they are cleared so that ended cycles do not differ by them.
EndCycle ==
    /\ available_uids' = << >>
    /\ selected_validator' = "None"
    /\ uid_list' = << >>
    /\ probe' = << >>

\* The selection with a 2:3 ratio.
select_validator_two_of_five(steps) == IF steps % 5 \in {0, 1} THEN "text" ELSE "image"

select_validator(steps) == IF steps % 5 \in {0, 1, 2} THEN "text" ELSE "image"

iterations_until_update(steps) ==
    iterations_per_set_weights - ((steps + 1) % iterations_per_set_weights)

\* The score tensors get_and_score may return for a topology of n workers:
\* one slot per position, zero for a worker that was not queried.
ScoreTensors(n, queried) ==
    {v \in [1..n -> 0..MaxTotal] : \A i \in 1..n : (i - 1) \notin queried => v[i] = 0}

Range(f) == {f[x] : x \in DOMAIN f}

\* The uid list drawn with replacement (random.choices) instead of shuffled.
uid_list_drawn_with_replacement(available) ==
    [1..Cardinality(DOMAIN available) -> DOMAIN available]

\* Lines 176-177, process_modality: list(available_uids.keys()) shuffled in
\* place; every ordering of the keys is a possible outcome.
shuffled_uid_list(available) == Perms(DOMAIN available)

\* Line 226: the topology refresh, then the suspension in get_available_uids.
SchedRefresh(cap) ==
    /\ pcS = "refresh"
    /\ steps_passed < cap
    /\ \E n \in InitN..MaxN : metagraph' = n
    /\ pcS' = "probing"
    /\ UNCHANGED <<moving_average_scores, total_scores, steps_passed, available_uids,
                   selected_validator, uid_list, obsVars, sumVars>>
    /\ UNCHANGED restVars

\* Line 226 raising: subtensor.metagraph fails.
SchedRefreshFail(cap) ==
    /\ pcS = "refresh"
    /\ steps_passed < cap
    /\ pcS' = "backoff"
    /\ UNCHANGED <<metagraph, moving_average_scores, total_scores, steps_passed,
                   available_uids, selected_validator, uid_list, obsVars, sumVars>>
    /\ UNCHANGED restVars

\* Lines 228-230 and 176-179: the probes are gathered, the capability is
\* selected, the uid list is shuffled and get_and_score is called.  A timed-out
\* probe either comes back as an unsuccessful reply or raises inside check_uid.
SchedProbe(replies) ==
    /\ pcS = "probing"
    /\ \E outcomes \in [1..metagraph -> replies] :
          LET avail == get_available_uids(metagraph, outcomes)
          IN  /\ probe' = outcomes
              /\ IF avail = Raised
                 THEN /\ pcS' = "backoff"
                      /\ UNCHANGED <<available_uids, selected_validator, uid_list>>
                 ELSE /\ available_uids' = avail
                      /\ selected_validator' = select_validator(steps_passed)
                      /\ \E order \in shuffled_uid_list(avail) : uid_list' = order
                      /\ pcS' = "dispatching"
    /\ UNCHANGED <<metagraph, total_scores, steps_passed, commitVars, sumVars>>
    /\ UNCHANGED restVars

\* Line 230 raising: get_and_score (or wandb.log) fails.
SchedDispatchFail ==
    /\ pcS = "dispatching"
    /\ EndCycle
    /\ pcS' = "backoff"
    /\ UNCHANGED <<metagraph, total_scores, steps_passed, commitVars, sumVars>>
    /\ UNCHANGED restVars

\* Line 231 raising: the returned tensor does not have the accumulator's length.
SchedAccumulateFail ==
    /\ pcS = "dispatching"
    /\ EndCycle
    /\ metagraph # Len(total_scores)
    /\ pcS' = "backoff"
    /\ UNCHANGED <<metagraph, total_scores, steps_passed, commitVars, sumVars>>
    /\ UNCHANGED restVars

\* Lines 230-240 without a commit: accumulate, advance the counter, sleep.
SchedAccumulate ==
    /\ pcS = "dispatching"
    /\ metagraph = Len(total_scores)
    /\ iterations_until_update(steps_passed) # 1
    /\ \E scores \in ScoreTensors(metagraph, Range(uid_list)) :
          /\ \A i \in 1..Len(total_scores) : total_scores[i] + scores[i] <= MaxTotal
          /\ total_scores' = iadd(total_scores, scores)
          /\ dispatch_sum' = VAdd(dispatch_sum, scores)
    /\ dispatch_count' = dispatch_count + 1
    /\ steps_passed' = steps_passed + 1
    /\ pcS' = "sleeping"
    /\ EndCycle
    /\ UNCHANGED <<metagraph, commitVars, organic_sum>>
    /\ UNCHANGED restVars

\* Lines 230-240 with a commit: accumulate, update_weights, advance, sleep.
SchedCommit ==
    /\ pcS = "dispatching"
    /\ metagraph = Len(total_scores)
    /\ iterations_until_update(steps_passed) = 1
    /\ Len(commitLog) < MaxCommits
    /\ \E scores \in ScoreTensors(metagraph, Range(uid_list)) :
          /\ \A i \in 1..Len(total_scores) : total_scores[i] + scores[i] <= MaxTotal
          /\ dispatch_sum' = VAdd(dispatch_sum, scores)
          /\ Commit(iadd(total_scores, scores), steps_passed)
    /\ dispatch_count' = dispatch_count + 1
    /\ steps_passed' = steps_passed + 1
    /\ pcS' = "sleeping"
    /\ EndCycle
    /\ UNCHANGED <<metagraph, organic_sum>>
    /\ UNCHANGED restVars

\* Lines 230-237 with subtensor.set_weights raising: the accumulator and the
\* moving average are already updated, the counter is not advanced.
SchedCommitFail ==
    /\ pcS = "dispatching"
    /\ metagraph = Len(total_scores)
    /\ iterations_until_update(steps_passed) = 1
    /\ Len(commitLog) < MaxCommits
    /\ \E scores \in ScoreTensors(metagraph, Range(uid_list)) :
          /\ \A i \in 1..Len(total_scores) : total_scores[i] + scores[i] <= MaxTotal
          /\ dispatch_sum' = VAdd(dispatch_sum, scores)
          /\ Commit(iadd(total_scores, scores), steps_passed)
    /\ dispatch_count' = dispatch_count + 1
    /\ pcS' = "backoff"
    /\ EndCycle
    /\ UNCHANGED <<metagraph, steps_passed, organic_sum>>
    /\ UNCHANGED restVars

\* Line 240: the 0.5 s sleep ends.
SchedSleep ==
    /\ pcS = "sleeping"
    /\ pcS' = "refresh"
    /\ UNCHANGED <<metagraph, moving_average_scores, total_scores, steps_passed,
                   available_uids, selected_validator, uid_list, obsVars, sumVars>>
    /\ UNCHANGED restVars

\* The scheduler loop without its except clause: the exception leaves the loop.
SchedBackoffReraising ==
    /\ pcS = "backoff"
    /\ pcS' = "terminated"
    /\ UNCHANGED <<metagraph, moving_average_scores, total_scores, steps_passed,
                   available_uids, selected_validator, uid_list, obsVars, sumVars>>
    /\ UNCHANGED restVars

\* Line 244: the 10 s backoff ends and the cycle is restarted.
SchedBackoff ==
    /\ pcS = "backoff"
    /\ pcS' = "refresh"
    /\ UNCHANGED <<metagraph, moving_average_scores, total_scores, steps_passed,
                   available_uids, selected_validator, uid_list, obsVars, sumVars>>
    /\ UNCHANGED restVars

\* ------------------------------------------------- organic request handler
EXPECTED_ACCESS_KEY == "hello"

\* The access-key headers a request may carry ("None": no such header).
AccessKeys == {"hello", "wrong", "None"}

\* Worker keys of a request body, as character sequences: "0", "01", "1a".
BodyKeys == {<<"0">>, <<"0", "1">>, <<"1", "a">>}
Prompts == {"hi"}

\* The request bodies: JSON objects from worker keys to prompts.
Bodies == UNION {[K -> Prompts] : K \in SUBSET BodyKeys}

\* The chunks organic may yield.
Chunks == {<<"H", "e">>, <<"l", "l", "o">>}

Digits == <<"0", "1", "2", "3", "4", "5", "6", "7", "8", "9">>
DigitValue(c) == CHOOSE d \in 0..9 : Digits[d + 1] = c

\* The check of line 259 letting a request without the header through.
authorized_or_missing(access_key) ==
    access_key = EXPECTED_ACCESS_KEY \/ access_key = "None"

\* Line 259: the access key is the expected one.
authorized(access_key) == access_key = EXPECTED_ACCESS_KEY

\* int(k) raising ValueError.
ValueError == -1

RECURSIVE DigitsValue(_)
DigitsValue(k) ==
    IF Len(k) = 0 THEN 0
    ELSE 10 * DigitsValue(SubSeq(k, 1, Len(k) - 1)) + DigitValue(k[Len(k)])

\* The longest prefix of k made of decimal digits.
RECURSIVE DigitPrefix(_)
DigitPrefix(k) ==
    IF Len(k) = 0 \/ k[1] \notin Range(Digits) THEN << >>
    ELSE <<k[1]>> \o DigitPrefix(Tail(k))

\* int(k) reading the leading digits and ignoring what follows them.
int_of_leading_digits(k) ==
    IF DigitPrefix(k) = << >> THEN ValueError ELSE DigitsValue(DigitPrefix(k))

\* int(k) of a str: the value of a non-empty string of decimal digits,
\* ValueError for any other string (signs, blanks and underscores are outside
\* the keys modelled).
int(k) ==
    IF Len(k) > 0 /\ \A i \in 1..Len(k) : k[i] \in Range(Digits)
    THEN DigitsValue(k)
    ELSE ValueError

\* Line 263: the dict comprehension raises ValueError on a key int() rejects.
body_raises(body) == \E k \in DOMAIN body : int(k) = ValueError

\* Line 263: {int(k): [{'role': 'user', 'content': v}]} (the prompts modelled
\* are all equal, so two keys of one uid carry the same prompt).
messages_of(body) ==
    [uid \in {int(k) : k \in DOMAIN body} |->
        <<[role |-> "user",
           content |-> body[CHOOSE k \in DOMAIN body : int(k) = uid]]>>]

\* str.encode(): the UTF-8 bytes of the characters used.
Code(c) ==
    CASE c = " " -> 32
      [] c = "<" -> 60
      [] c = ">" -> 62
      [] c = "H" -> 72
      [] c = "a" -> 97
      [] c = "e" -> 101
      [] c = "i" -> 105
      [] c = "l" -> 108
      [] c = "n" -> 110
      [] c = "o" -> 111
      [] c = "r" -> 114
      [] c = "t" -> 116

encode(text) == [i \in 1..Len(text) |-> Code(text[i])]

\* The sentinel without its brackets.
SentinelWithoutBrackets ==
    encode(<<"i", "n", "t", "e", "r", "n", "a", "l", " ", "e", "r", "r", "o", "r">>)

\* Line 287: b'<<internal error>>'.
Sentinel ==
    encode(<<"<", "<", "i", "n", "t", "e", "r", "n", "a", "l", " ",
             "e", "r", "r", "o", "r", ">", ">">>)

\* Line 273 with = for +=.
accumulate_overwriting(responses, uid, chunk) == [responses EXCEPT ![uid] = chunk]

\* Line 273: uid_to_response[uid] += content.
accumulate(responses, uid, chunk) == [responses EXCEPT ![uid] = @ \o chunk]

\* wait_for_coro_with_limit without the except clause turning a timeout into
\* "no result": the coroutine's data is passed on as a success.
wait_for_coro_ignoring_limit(outcome, data) ==
    IF outcome = "raised" THEN Raised ELSE <<TRUE, data>>

\* Lines 247-253, wait_for_coro_with_limit: what the task resolves to when the
\* coroutine returns data, runs past the limit, or raises.
wait_for_coro_with_limit(outcome, data) ==
    IF outcome = "timeout" THEN <<FALSE, None>>
    ELSE IF outcome = "raised" THEN Raised
    ELSE <<TRUE, data>>

\* Lines 258-260: the request arrives and the access key is checked; a wrong
\* key is answered 401, otherwise the handler waits for the body.
HandlerReceive(cap, keys, bodies) ==
    /\ pcH \in {"idle", "done"}
    /\ served < cap
    /\ \E access_key \in keys, body \in bodies :
          /\ request' = [access_key |-> access_key, body |-> body]
          /\ IF authorized(access_key)
             THEN status' = 0 /\ pcH' = "reading"
             ELSE status' = 401 /\ pcH' = "done"
    /\ prepared' = FALSE
    /\ messages_dict' = << >>
    /\ uid_to_response' = << >>
    /\ content' = << >>
    /\ written' = << >>
    /\ yielded' = << >>
    /\ organic_metagraph' = 0
    /\ failed' = "None"
    /\ task_of' = 0
    /\ tasks_at_receive' = Len(tasks)
    /\ served' = served + 1
    /\ UNCHANGED <<schedVars, obsVars, sumVars, taskVars, drainVars>>

\* Lines 262-267: the body is parsed; ValueError is answered 400, otherwise
\* the stream response is created and the handler waits in response.prepare.
HandlerParse ==
    /\ pcH = "reading"
    /\ IF body_raises(request.body)
       THEN /\ status' = 400
            /\ pcH' = "done"
            /\ UNCHANGED messages_dict
       ELSE /\ messages_dict' = messages_of(request.body)
            /\ status' = 200
            /\ pcH' = "preparing"
    /\ UNCHANGED <<request, prepared, uid_to_response, content, written, yielded,
                   organic_metagraph, failed, task_of, tasks_at_receive, served>>
    /\ UNCHANGED <<schedVars, obsVars, sumVars, taskVars, drainVars>>

\* Lines 268-272: the headers are sent, uid_to_response is set up and organic
\* is called with the topology of the moment.
HandlerPrepare ==
    /\ pcH = "preparing"
    /\ prepared' = TRUE
    /\ uid_to_response' = [uid \in DOMAIN messages_dict |-> << >>]
    /\ organic_metagraph' = metagraph
    /\ pcH' = "streaming"
    /\ UNCHANGED <<request, status, messages_dict, content, written, yielded, failed,
                   task_of, tasks_at_receive, served>>
    /\ UNCHANGED <<schedVars, obsVars, sumVars, taskVars, drainVars>>

\* What organic may yield next: a chunk of one of the workers asked.
OrganicYields(messages, chunks) == (DOMAIN messages) \X chunks

\* Lines 272-274: organic yields a chunk of one of the requested workers; it is
\* appended to that worker's text and handed to response.write.
HandlerYield(chunks) ==
    /\ pcH = "streaming"
    /\ Len(yielded) < MaxChunks
    /\ \E pair \in OrganicYields(messages_dict, chunks) :
          LET uid == pair[1]
              chunk == pair[2]
          IN
          /\ yielded' = Append(yielded, <<uid, chunk>>)
          /\ uid_to_response' = accumulate(uid_to_response, uid, chunk)
          /\ content' = chunk
    /\ pcH' = "writing"
    /\ UNCHANGED <<request, status, prepared, messages_dict, written, organic_metagraph,
                   failed, task_of, tasks_at_receive, served>>
    /\ UNCHANGED <<schedVars, obsVars, sumVars, taskVars, drainVars>>

\* Line 274: response.write(content.encode()) completes.
HandlerWrite ==
    /\ pcH = "writing"
    /\ written' = Append(written, encode(content))
    /\ pcH' = "streaming"
    /\ UNCHANGED <<request, status, prepared, messages_dict, uid_to_response, content,
                   yielded, organic_metagraph, failed, task_of, tasks_at_receive, served>>
    /\ UNCHANGED <<schedVars, obsVars, sumVars, taskVars, drainVars>>

\* The end of the stream returning the response without lines 275-284: no
\* scoring task is created.
HandlerStreamEndWithoutTask ==
    /\ pcH = "streaming"
    /\ pcH' = "done"
    /\ UNCHANGED <<request, status, prepared, messages_dict, uid_to_response, content,
                   written, yielded, organic_metagraph, failed, task_of, tasks_at_receive,
                   served>>
    /\ UNCHANGED <<schedVars, obsVars, sumVars, taskVars, drainVars>>

\* Lines 275-289: organic is exhausted; the scoring task is created with the
\* texts, the prompts and the topology of the moment, and added to the set;
\* the response is returned.
HandlerStreamEnd ==
    /\ pcH = "streaming"
    /\ tasks' = Append(tasks, [state |-> "pending",
                               outcome |-> "None",
                               result |-> None,
                               query_responses |-> uid_to_response,
                               uid_to_question |-> messages_dict,
                               metagraph |-> metagraph,
                               added |-> 0])
    /\ organic_scoring_tasks' = organic_scoring_tasks \cup {Len(tasks) + 1}
    /\ task_of' = Len(tasks) + 1
    /\ pcH' = "done"
    /\ UNCHANGED <<request, status, prepared, messages_dict, uid_to_response, content,
                   written, yielded, organic_metagraph, failed, tasks_at_receive, served>>
    /\ UNCHANGED <<schedVars, obsVars, sumVars, drainVars>>

\* Lines 272 and 285-287: organic raises instead of yielding or ending; the
\* handler goes to write the sentinel.
HandlerStreamFail ==
    /\ pcH = "streaming"
    /\ failed' = "organic"
    /\ pcH' = "failing"
    /\ UNCHANGED <<request, status, prepared, messages_dict, uid_to_response, content,
                   written, yielded, organic_metagraph, task_of, tasks_at_receive, served>>
    /\ UNCHANGED <<schedVars, obsVars, sumVars, taskVars, drainVars>>

\* Lines 275-287: organic is exhausted but scheduling the scoring task raises;
\* nothing is added to the set and the handler goes to write the sentinel.
HandlerScheduleFail ==
    /\ pcH = "streaming"
    /\ failed' = "create_task"
    /\ pcH' = "failing"
    /\ UNCHANGED <<request, status, prepared, messages_dict, uid_to_response, content,
                   written, yielded, organic_metagraph, task_of, tasks_at_receive, served>>
    /\ UNCHANGED <<schedVars, obsVars, sumVars, taskVars, drainVars>>

\* Lines 287-289: the sentinel is written and the response is returned.
HandlerSentinel ==
    /\ pcH = "failing"
    /\ written' = Append(written, Sentinel)
    /\ pcH' = "done"
    /\ UNCHANGED <<request, status, prepared, messages_dict, uid_to_response, content,
                   yielded, organic_metagraph, failed, task_of, tasks_at_receive, served>>
    /\ UNCHANGED <<schedVars, obsVars, sumVars, taskVars, drainVars>>

\* ------------------------------------------------- deferred scoring tasks
\* The score tensor score_responses returns for a task: one slot per position
\* of the task's topology, a score for each worker asked and zero elsewhere.
OrganicScores(task) ==
    [i \in 1..task.metagraph |-> IF (i - 1) \in DOMAIN task.uid_to_question THEN 1 ELSE 0]

\* A pending task resolves: score_responses returns its data (the score tensor
\* first), runs past the 60 s limit, or raises.
TaskResolve ==
    /\ \E t \in DOMAIN tasks :
          /\ tasks[t].state = "pending"
          /\ \E outcome \in {"returned", "timeout", "raised"} :
                tasks' = [tasks EXCEPT
                             ![t].state = "done",
                             ![t].outcome = outcome,
                             ![t].result =
                                 wait_for_coro_with_limit(outcome, <<OrganicScores(tasks[t])>>)]
    /\ UNCHANGED <<organic_scoring_tasks, schedVars, obsVars, sumVars, drainVars, handlerVars>>

\* A task removed from the set is no longer referenced; how its coroutine
\* ended and how many times line 212 added its scores stay on record.
Collected(task) ==
    [state |-> "collected", outcome |-> task.outcome, result |-> None,
     query_responses |-> << >>, uid_to_question |-> << >>, metagraph |-> 0,
     added |-> task.added]

\* -------------------------------------------------- background scoring drain
\* Lines 202-212: the loop over the completed tasks, in the order given, from
\* the k-th on.  A task that raised is logged, a task without result is
\* skipped, the scores of any other are added to the accumulator; an addition
\* of a tensor of another length raises and ends the loop.  The result is the
\* accumulator, whether the loop raised, and the tasks whose scores were added.
RECURSIVE drain_batch(_, _, _, _)
drain_batch(order, k, total, tk) ==
    IF k > Len(order) THEN [total |-> total, raised |-> FALSE, added |-> {}]
    ELSE LET result == tk[order[k]].result
         IN  IF result = Raised THEN drain_batch(order, k + 1, total, tk)
             ELSE IF ~result[1] THEN drain_batch(order, k + 1, total, tk)
             ELSE IF Len(result[2][1]) # Len(total)
                  THEN [total |-> total, raised |-> TRUE, added |-> {}]
             ELSE LET rest == drain_batch(order, k + 1, iadd(total, result[2][1]), tk)
                  IN  [rest EXCEPT !.added = @ \cup {order[k]}]

\* Lines 199-201 and 214-215: with tasks in the set the drain waits on them,
\* otherwise it sleeps 1 s.
DrainCheck ==
    /\ pcD = "check"
    /\ IF organic_scoring_tasks # {}
       THEN waiting_on' = organic_scoring_tasks /\ pcD' = "waiting"
       ELSE waiting_on' = {} /\ pcD' = "sleeping"
    /\ UNCHANGED <<schedVars, obsVars, sumVars, taskVars, handlerVars>>

\* Lines 200-213 and 216-218: asyncio.wait returns the tasks that are done (none
\* after the 1 s timeout); they are processed and removed from the set, unless
\* the processing raises, which sends the drain to its backoff.
DrainWake ==
    /\ pcD = "waiting"
    /\ LET completed == {t \in waiting_on : tasks[t].state = "done"}
       IN  \E order \in Perms(completed) :
              LET out == drain_batch(order, 1, total_scores, tasks)
              IN  /\ \A i \in 1..Len(out.total) : out.total[i] <= MaxTotal
                  /\ total_scores' = out.total
                  /\ organic_sum' = [i \in 1..Len(organic_sum) |->
                                        organic_sum[i] + (out.total[i] - total_scores[i])]
                  /\ LET counted == [t \in DOMAIN tasks |->
                                        IF t \in out.added
                                        THEN [tasks[t] EXCEPT !.added = @ + 1]
                                        ELSE tasks[t]]
                     IN  IF out.raised
                         THEN /\ pcD' = "backoff"
                              /\ UNCHANGED organic_scoring_tasks
                              /\ tasks' = counted
                         ELSE /\ pcD' = "check"
                              /\ organic_scoring_tasks' = organic_scoring_tasks \ completed
                              /\ tasks' = [t \in DOMAIN tasks |->
                                              IF t \in completed
                                              THEN Collected(counted[t])
                                              ELSE counted[t]]
    /\ waiting_on' = {}
    /\ UNCHANGED <<metagraph, moving_average_scores, steps_passed, pcS, available_uids,
                   selected_validator, uid_list, obsVars, dispatch_count, dispatch_sum,
                   handlerVars>>

\* Line 215: the 1 s sleep ends.
DrainSleep ==
    /\ pcD = "sleeping"
    /\ pcD' = "check"
    /\ UNCHANGED <<waiting_on, schedVars, obsVars, sumVars, taskVars, handlerVars>>

\* Line 218: the 10 s backoff ends.
DrainBackoff ==
    /\ pcD = "backoff"
    /\ pcD' = "check"
    /\ UNCHANGED <<waiting_on, schedVars, obsVars, sumVars, taskVars, handlerVars>>

vars == <<schedVars, obsVars, sumVars, restVars>>

Init ==
    /\ metagraph = InitN
    /\ moving_average_scores = None
    /\ total_scores = VZeros(InitN)
    /\ steps_passed = 0
    /\ pcS = "refresh"
    /\ available_uids = << >>
    /\ selected_validator = "None"
    /\ uid_list = << >>
    /\ probe = << >>
    /\ ledger = None
    /\ commitLog = << >>
    /\ lastTotal = None
    /\ lastSteps = 0
    /\ lastScores = None
    /\ prevScores = None
    /\ prevMA = None
    /\ prev2MA = None
    /\ dispatch_count = 0
    /\ dispatch_sum = VZeros(InitN)
    /\ organic_sum = VZeros(InitN)
    /\ organic_scoring_tasks = {}
    /\ tasks = << >>
    /\ pcD = "check"
    /\ waiting_on = {}
    /\ pcH = "idle"
    /\ request = [access_key |-> "None", body |-> {}]
    /\ status = 0
    /\ prepared = FALSE
    /\ messages_dict = << >>
    /\ uid_to_response = << >>
    /\ content = << >>
    /\ written = << >>
    /\ yielded = << >>
    /\ organic_metagraph = 0
    /\ failed = "None"
    /\ task_of = 0
    /\ tasks_at_receive = 0
    /\ served = 0

\* The scheduler loop on its own, every probe outcome explored.
NextSched ==
    \/ SchedRefresh(MaxSteps)
    \/ SchedRefreshFail(MaxSteps)
    \/ SchedProbe(ProbeOutcomes)
    \/ SchedDispatchFail
    \/ SchedAccumulateFail
    \/ SchedAccumulate
    \/ SchedCommit
    \/ SchedCommitFail
    \/ SchedSleep
    \/ SchedBackoff

SpecSched == Init /\ [][NextSched]_vars

\* The request handler on its own, every request and stream explored.
NextHandler ==
    \/ HandlerReceive(MaxHandlerRequests, AccessKeys, Bodies)
    \/ HandlerParse
    \/ HandlerPrepare
    \/ HandlerYield(Chunks)
    \/ HandlerWrite
    \/ HandlerStreamEnd
    \/ HandlerStreamFail
    \/ HandlerScheduleFail
    \/ HandlerSentinel

SpecHandler == Init /\ [][NextHandler]_vars

\* ------------------------------------------------------- the whole system
\* The scheduler loop, the drain and the handler interleaved at their
\* suspension points.  The inputs that only multiply the interleavings are
\* narrowed: every probe times out (so every dispatch returns zeros), requests
\* carry the expected key and ask worker 0, and a stream ends or fails before
\* its first chunk.
SystemReplies == {"timeout"}
SystemKeys == {EXPECTED_ACCESS_KEY}
SystemBodies == {[k \in {<<"0">>} |-> "hi"]}

Next ==
    \/ SchedRefresh(MaxSysSteps)
    \/ SchedRefreshFail(MaxSysSteps)
    \/ SchedProbe(SystemReplies)
    \/ SchedDispatchFail
    \/ SchedAccumulateFail
    \/ SchedAccumulate
    \/ SchedSleep
    \/ SchedBackoff
    \/ HandlerReceive(MaxRequests, SystemKeys, SystemBodies)
    \/ HandlerParse
    \/ HandlerPrepare
    \/ HandlerStreamEnd
    \/ HandlerStreamFail
    \/ HandlerSentinel
    \/ TaskResolve
    \/ DrainCheck
    \/ DrainWake
    \/ DrainSleep
    \/ DrainBackoff

Spec == Init /\ [][Next]_vars

\* ------------------------------------------- the two loops under fairness
\* The scheduler loop through its first commit and the drain, with one organic
\* request feeding the drain.  The sleeps of the two loops end (asyncio.sleep
\* returns), asyncio.wait returns within its 1 s timeout, and a pending task
\* resolves (wait_for bounds it by 60 s).
NextLoops ==
    \/ SchedRefresh(MaxLoopSteps)
    \/ SchedRefreshFail(MaxLoopSteps)
    \/ SchedProbe(SystemReplies)
    \/ SchedDispatchFail
    \/ SchedAccumulateFail
    \/ SchedAccumulate
    \/ SchedCommit
    \/ SchedCommitFail
    \/ SchedSleep
    \/ SchedBackoff
    \/ HandlerReceive(MaxHandlerRequests, SystemKeys, SystemBodies)
    \/ HandlerParse
    \/ HandlerPrepare
    \/ HandlerStreamEnd
    \/ TaskResolve
    \/ DrainCheck
    \/ DrainWake
    \/ DrainSleep
    \/ DrainBackoff

\* The whole system with every probe a success, so that the dispatches and the
\* drained tasks both add nonzero scores in every order; one request is served
\* and its stream does not fail.
MixReplies == {"success"}

NextMix ==
    \/ SchedRefresh(MaxSysSteps)
    \/ SchedProbe(MixReplies)
    \/ SchedAccumulateFail
    \/ SchedAccumulate
    \/ SchedSleep
    \/ SchedBackoff
    \/ HandlerReceive(MaxHandlerRequests, SystemKeys, SystemBodies)
    \/ HandlerParse
    \/ HandlerPrepare
    \/ HandlerStreamEnd
    \/ TaskResolve
    \/ DrainCheck
    \/ DrainWake
    \/ DrainSleep
    \/ DrainBackoff

SpecMix == Init /\ [][NextMix]_vars

SpecLoops ==
    /\ Init
    /\ [][NextLoops]_vars
    /\ WF_vars(SchedSleep)
    /\ WF_vars(SchedBackoff)
    /\ WF_vars(TaskResolve)
    /\ WF_vars(DrainCheck)
    /\ WF_vars(DrainWake)
    /\ WF_vars(DrainSleep)
    /\ WF_vars(DrainBackoff)

\* ------------------------------------------- the weight committer on its own
\* The steps at which the scheduler calls update_weights.
CommitSteps == {s \in 0..MaxSteps : iterations_until_update(s) = 1}

\* update_weights applied to the accumulators and commit steps the scheduler
\* can bring to it: the accumulator only grows, and the step is the one of the
\* last call (a commit retried after a failed submission) or a later one.
WeightsCall ==
    /\ Len(commitLog) < MaxCalls
    /\ \E total \in [1..InitN -> 0..MaxTotal], steps \in CommitSteps :
          /\ \A i \in 1..InitN : total[i] >= total_scores[i]
          /\ steps >= steps_passed
          /\ steps_passed' = steps
          /\ Commit(total, steps)
    /\ UNCHANGED <<metagraph, pcS, available_uids, selected_validator, uid_list, probe>>
    /\ UNCHANGED <<sumVars, restVars>>

NextWeights == WeightsCall

SpecWeights == Init /\ [][NextWeights]_vars

\* ------------------------------------------------------------------ claims

\* C1: a weight commit fires exactly once per 12 steps of the step counter, and
\* only in a cycle whose counter satisfies (steps_passed + 1) mod 12 = 11, also
\* in runs where a cycle fails and is restarted: every logged commit is at such
\* a step, no step is logged twice, and every such step already passed is logged.
C1_CommitOncePerTwelveSteps ==
    /\ \A i \in DOMAIN commitLog : (commitLog[i] + 1) % 12 = 11
    /\ \A i, j \in DOMAIN commitLog : i # j => commitLog[i] # commitLog[j]
    /\ \A s \in 0..(steps_passed - 1) :
          (s + 1) % 12 = 11 => \E i \in DOMAIN commitLog : commitLog[i] = s

\* C2: the capability handed to the dispatch is text iff steps_passed mod 5 is
\* 0, 1 or 2 and image otherwise: over a period of 5 steps the choice is
\* text, text, text, image, image, whatever else the state holds.
CapabilityPattern == <<"text", "text", "text", "image", "image">>

C2_SelectionByStepCounter ==
    pcS = "dispatching" => selected_validator = CapabilityPattern[(steps_passed % 5) + 1]

\* C2 witness: the second period is reached, on an image step with one worker available.
C2_Witness ==
    /\ pcS = "dispatching"
    /\ steps_passed = 8
    /\ selected_validator = "image"
    /\ Len(uid_list) = 1

\* C8: once the probes are gathered the available-worker map holds exactly the
\* uids of the topology whose probe was a success, each with its own axon, and
\* the scheduler goes on to the dispatch: no probe failure ends the cycle.
C8_AvailableAreTheSuccessfulProbes ==
    probe # << >> =>
        /\ pcS = "dispatching"
        /\ DOMAIN available_uids = {uid \in Uids(metagraph) : probe[uid + 1] = "success"}
        /\ \A uid \in DOMAIN available_uids : available_uids[uid] = Axon(uid)

\* C8 witness: a topology of two workers, one probe a success, the other timed out.
C8_Witness ==
    /\ pcS = "dispatching"
    /\ metagraph = 2
    /\ probe = <<"timeout", "success">>
    /\ DOMAIN available_uids = {1}

\* C9: the weights handed to the ledger are the moving average, not the
\* normalized scores: the raw average total / (steps + 1) at the first commit,
\* and 0.3 * raw + 0.7 * (the moving average before the commit) afterwards.
RawAverage == [i \in 1..Len(lastTotal) |-> Rat(lastTotal[i], lastSteps + 1)]

C9_LedgerGetsMovingAverage ==
    commitLog # << >> =>
        ledger = IF prevMA = None
                 THEN RawAverage
                 ELSE [i \in 1..Len(RawAverage) |->
                          RAdd(RMul(<<3, 10>>, RawAverage[i]), RMul(<<7, 10>>, prevMA[i]))]

\* C9 witness: a second commit whose weights are neither the raw average nor
\* its normalization.
C9_Witness ==
    /\ Len(commitLog) = 2
    /\ prevMA # None
    /\ ledger # RawAverage
    /\ ledger # normalized_scores(RawAverage)
    /\ ledger = moving_average_scores

\* C10 as stated: whenever the same raw vector is handed to set_weights twice in
\* a row, the second call leaves the moving average as the first call left it,
\* for every moving average before the first call.
C10_SecondUpdateIsFixedPoint ==
    (Len(commitLog) >= 2 /\ lastScores = prevScores) => moving_average_scores = prevMA

\* C10 amended: the second of two calls with the same raw vector leaves the
\* moving average unchanged when, before the first of the two, the moving
\* average was unset or already equal to that raw vector.
C10_FixedPointWhenStartedAtRaw ==
    (/\ Len(commitLog) >= 2
     /\ lastScores = prevScores
     /\ (prev2MA = None \/ prev2MA = prevScores))
        => moving_average_scores = prevMA

\* C10 witness: the first two commits carry the same nonzero raw vector.
C10_Witness ==
    /\ Len(commitLog) = 2
    /\ lastScores = prevScores
    /\ prev2MA = None
    /\ lastScores[1] # RInt(0)
    /\ moving_average_scores = prevMA

\* C3: a request whose access key is not the expected one is answered 401
\* whatever its body: no stream is opened, organic is not called, nothing is
\* written and no scoring task is created or added to the task set.
C3_WrongKeyIs401 ==
    (pcH # "idle" /\ request.access_key # "hello") =>
        /\ pcH = "done"
        /\ status = 401
        /\ ~prepared
        /\ organic_metagraph = 0
        /\ written = << >>
        /\ task_of = 0
        /\ Len(tasks) = tasks_at_receive
        /\ organic_scoring_tasks = 1..tasks_at_receive

\* C3 witness: a wrong key with a body holding a key that is no integer.
C3_Witness ==
    /\ pcH = "done"
    /\ request.access_key = "wrong"
    /\ <<"1", "a">> \in DOMAIN request.body
    /\ status = 401

\* C4: a request with the expected access key and a body with at least one
\* worker key that is not a string of digits is answered 400 once the body is
\* read: no stream is opened, organic is not called and no task is created.
NotAnInteger(k) ==
    \E i \in 1..Len(k) : k[i] \notin {"0", "1", "2", "3", "4", "5", "6", "7", "8", "9"}

C4_NonIntegerKeyIs400 ==
    (/\ request.access_key = "hello"
     /\ \E k \in DOMAIN request.body : NotAnInteger(k))
        => /\ ~prepared
           /\ organic_metagraph = 0
           /\ written = << >>
           /\ task_of = 0
           /\ Len(tasks) = tasks_at_receive
           /\ pcH \in {"reading", "done"}
           /\ pcH = "reading" => status = 0
           /\ pcH = "done" => status = 400

\* C4 witness: the body {"0": "hi", "1a": "hi"} has been answered 400.
C4_Witness ==
    /\ pcH = "done"
    /\ request.access_key = "hello"
    /\ DOMAIN request.body = {<<"0">>, <<"1", "a">>}
    /\ status = 400

\* C5: for a valid request whose stream has not failed, the byte strings
\* written are the chunks yielded, one write per chunk in the order yielded,
\* and the texts given to the scoring task are, for each worker asked, the
\* concatenation of that worker's chunks in that order (empty without chunks).
ChunkBytes(chunk) ==
    IF chunk = <<"H", "e">> THEN <<72, 101>> ELSE <<108, 108, 111>>

RECURSIVE TextOf(_, _)
TextOf(uid, pairs) ==
    IF pairs = << >> THEN << >>
    ELSE (IF pairs[1][1] = uid THEN pairs[1][2] ELSE << >>) \o TextOf(uid, Tail(pairs))

C5_ChunksForwardedInOrder ==
    (prepared /\ failed = "None") =>
        /\ LET sent == IF pcH = "writing"
                       THEN SubSeq(yielded, 1, Len(yielded) - 1)
                       ELSE yielded
           IN  written = [i \in 1..Len(sent) |-> ChunkBytes(sent[i][2])]
        /\ task_of # 0 =>
              /\ DOMAIN tasks[task_of].query_responses = DOMAIN messages_dict
              /\ \A uid \in DOMAIN messages_dict :
                    tasks[task_of].query_responses[uid] = TextOf(uid, yielded)

\* C5 witness: workers 0 and 1 asked, worker 1 yields "He" then "llo": the
\* caller got the two chunks and the task the text "Hello" for 1, "" for 0.
C5_Witness ==
    /\ pcH = "done"
    /\ task_of # 0
    /\ DOMAIN messages_dict = {0, 1}
    /\ yielded = <<<<1, <<"H", "e">>>>, <<1, <<"l", "l", "o">>>>>>
    /\ written = <<<<72, 101>>, <<108, 108, 111>>>>
    /\ tasks[task_of].query_responses[1] = <<"H", "e", "l", "l", "o">>
    /\ tasks[task_of].query_responses[0] = << >>

\* C6: when organic or the scheduling of the scoring task raises, the response
\* has status 200 and its stream is open, the chunks written before stay as
\* they were, the bytes of '<<internal error>>' are written once, after them
\* and last, the response is returned, and no task is created.
SentinelBytes ==
    <<60, 60, 105, 110, 116, 101, 114, 110, 97, 108, 32, 101, 114, 114, 111, 114, 62, 62>>

C6_FailureWritesSentinelOnce ==
    failed # "None" =>
        /\ status = 200
        /\ prepared
        /\ task_of = 0
        /\ Len(tasks) = tasks_at_receive
        /\ pcH \in {"failing", "done"}
        /\ LET chunks == [i \in 1..Len(yielded) |-> ChunkBytes(yielded[i][2])]
           IN  /\ pcH = "failing" => written = chunks
               /\ pcH = "done" => written = Append(chunks, SentinelBytes)

\* C6 witness: organic raised after one chunk had been forwarded.
C6_Witness ==
    /\ failed = "organic"
    /\ pcH = "done"
    /\ Len(yielded) = 1
    /\ written = <<ChunkBytes(yielded[1][2]), SentinelBytes>>

\* C7: a drain iteration adds to the accumulator only the scores of tasks whose
\* coroutine returned data; when every completed task timed out or raised, the
\* accumulator is unchanged, the tasks are removed and the drain is back at the
\* top of its loop; in every case the drain goes on (to the top or its backoff).
RECURSIVE SumScores(_, _, _)
SumScores(S, tk, zero) ==
    IF S = {} THEN zero
    ELSE LET t == CHOOSE x \in S : TRUE
         IN  VAdd(SumScores(S \ {t}, tk, zero), tk[t].result[2][1])

C7_TimedOutOrFailedTaskAddsNothing ==
    [][(pcD = "waiting" /\ pcD' # "waiting") =>
          LET completed == {t \in waiting_on : tasks[t].state = "done"}
              returned == {t \in completed : tasks[t].outcome = "returned"}
          IN  /\ pcD' \in {"check", "backoff"}
              /\ \E S \in SUBSET returned :
                    total_scores' = SumScores(S, tasks, total_scores)
              /\ returned = {} =>
                    /\ total_scores' = total_scores
                    /\ pcD' = "check"
                    /\ organic_scoring_tasks' = organic_scoring_tasks \ completed
                    /\ \A t \in completed : tasks'[t].state = "collected"]_vars

\* C7 witness: a task that timed out has been drained, a later task that
\* returned data has been drained after it, and the accumulator holds that
\* task's score alone.
C7_Witness ==
    /\ Len(tasks) = 2
    /\ tasks[1].state = "collected" /\ tasks[1].outcome = "timeout"
    /\ tasks[2].state = "collected" /\ tasks[2].outcome = "returned"
    /\ \A i \in 1..Len(total_scores) : total_scores[i] = 1
    /\ pcD = "check"

\* C11: with no organic contribution, once k cycles have completed (the
\* scheduler is in the sleep that ends the k-th) the accumulator is the
\* elementwise sum of the score tensors the dispatches returned and there are k
\* of them, and the raw average of a commit at step s is the accumulator
\* divided by s + 1.
C11_AccumulatorIsSumOfCycleScores ==
    /\ pcS = "sleeping" =>
          /\ total_scores = dispatch_sum
          /\ dispatch_count = steps_passed
    /\ commitLog # << >> =>
          lastScores = [i \in 1..Len(lastTotal) |-> Rat(lastTotal[i], lastSteps + 1)]
    /\ (pcS = "sleeping" /\ commitLog # << >> /\ lastSteps + 1 = steps_passed) =>
          lastTotal = total_scores

\* C12: no exception ends either loop.  Each loop is always at one of its
\* suspension points; the step counter changes only when a cycle reaches its
\* end, so a cycle that raises leaves it as it was when the cycle started; and
\* a loop in its backoff is eventually back at the top of its loop, the
\* scheduler with the step counter of the failed cycle.
C12_LoopsBackOffAndRestart ==
    /\ [](pcS \in {"refresh", "probing", "dispatching", "sleeping", "backoff"})
    /\ [](pcD \in {"check", "waiting", "sleeping", "backoff"})
    /\ [][pcS' # "sleeping" => steps_passed' = steps_passed]_vars
    /\ (pcS = "backoff") ~> (pcS = "refresh")
    /\ (pcD = "backoff") ~> (pcD = "check")

\* C12 witness: the weight submission of step 10 raised and the scheduler is in
\* a new cycle with the counter still 10, while the drain is in its backoff.
C12_Witness ==
    /\ pcS = "probing"
    /\ steps_passed = 10
    /\ commitLog = <<10>>
    /\ pcD = "backoff"

\* C13: in every state, whichever of the scheduler, the drain and the handler
\* took the steps before it and in whatever order, the accumulator is the sum
\* of the score tensors the dispatches added and of the score tensors the drain
\* added: no addition is lost and none is seen half done.
C13_AccumulatorIsSumOfAllAdditions ==
    /\ Len(total_scores) = InitN
    /\ total_scores = VAdd(dispatch_sum, organic_sum)

\* C13 witness: a dispatch and a drained task have each added a nonzero score
\* to the same slot, and the accumulator holds both.
C13_Witness ==
    /\ dispatch_sum[1] = 1
    /\ organic_sum[1] = 1
    /\ total_scores[1] = 2
    /\ pcS = "sleeping"
    /\ pcD = "check"
    /\ pcH = "done"

\* C14: every task added to organic_scoring_tasks is eventually removed from
\* it, whatever its coroutine did, and a drain iteration removes every task it
\* finds resolved.
C14_TasksEventuallyRemoved ==
    /\ \A t \in 1..MaxHandlerRequests :
          (t \in organic_scoring_tasks) ~> (t \notin organic_scoring_tasks)
    /\ [][(pcD = "waiting" /\ pcD' # "waiting") =>
             organic_scoring_tasks' =
                 organic_scoring_tasks \ {t \in waiting_on : tasks[t].state = "done"}]_vars

\* C15: a request has created a scoring task exactly when it passed the key
\* and body checks and its try block (the stream and the task creation) ended
\* without raising; the request has then created one task and no more, the
\* task is in organic_scoring_tasks, every chunk yielded had been written
\* before, and the step that creates the task is the step that returns the
\* response, the task still pending.
C15_TaskIffStreamCompleted ==
    /\ [](/\ (task_of # 0) <=> (pcH = "done" /\ status = 200 /\ failed = "None")
          /\ Len(tasks) - tasks_at_receive = (IF task_of # 0 THEN 1 ELSE 0)
          /\ task_of # 0 =>
                /\ task_of = Len(tasks)
                /\ task_of \in organic_scoring_tasks
                /\ Len(written) = Len(yielded)
                /\ \A i \in 1..Len(yielded) : written[i] = encode(yielded[i][2]))
    /\ [][(Len(tasks') # Len(tasks)) =>
             /\ pcH = "streaming"
             /\ pcH' = "done"
             /\ task_of' = Len(tasks')
             /\ tasks'[task_of'].state = "pending"
             /\ tasks'[task_of'].result = None]_vars

\* C15 witness: a request whose stream yielded two chunks has returned with
\* its one task in the set; both chunks were written before.
C15_Witness ==
    /\ pcH = "done"
    /\ status = 200
    /\ Len(yielded) = 2
    /\ Len(written) = 2
    /\ Len(tasks) = tasks_at_receive + 1
    /\ organic_scoring_tasks = {task_of}
    /\ tasks[task_of].state = "pending"

\* C16: a step that commits leaves the accumulator equal to the tensor handed
\* to update_weights, which is the accumulator before the step plus the score
\* tensor of this cycle's dispatch, and leaves the step counter to line 239;
\* every step changes the accumulator by exactly the dispatch and organic
\* score tensors it adds (a step that adds and commits nothing leaves it as it
\* is); and the moving average changes in committing steps only, so later
\* additions to the accumulator do not reach it.
C16_CommitLeavesAccumulator ==
    [][\/ UNCHANGED <<total_scores, sumVars, commitLog, moving_average_scores>>
       \/ LET added == [i \in 1..Len(total_scores) |->
                           (dispatch_sum'[i] - dispatch_sum[i])
                           + (organic_sum'[i] - organic_sum[i])]
          IN  /\ total_scores' = VAdd(total_scores, added)
              /\ \A i \in 1..Len(added) : added[i] >= 0
              /\ (commitLog' # commitLog) =>
                    /\ total_scores' = lastTotal'
                    /\ lastSteps' = steps_passed
                    /\ steps_passed' = (IF pcS' = "sleeping" THEN steps_passed + 1
                                        ELSE steps_passed)
              /\ (commitLog' = commitLog) =>
                    moving_average_scores' = moving_average_scores
      ]_vars

\* C16 witness: after the first commit the accumulator is still [2], the
\* tensor the commit was given, while the moving average is [2/11].
C16_Witness ==
    /\ commitLog = <<10>>
    /\ pcS = "sleeping"
    /\ steps_passed = 11
    /\ total_scores = <<2>>
    /\ lastTotal = total_scores
    /\ moving_average_scores = <<Rat(2, 11)>>

\* C17: the uid list handed to get_and_score holds each uid the prober found
\* available in this cycle once and no other uid, the available uids being
\* those of this cycle's topology whose probe of this cycle was a success.
C17_UidListIsPermutationOfAvailable ==
    pcS = "dispatching" =>
        /\ Len(probe) = metagraph
        /\ DOMAIN available_uids = {uid \in Uids(metagraph) : probe[uid + 1] = "success"}
        /\ Len(uid_list) = Cardinality(DOMAIN available_uids)
        /\ {uid_list[i] : i \in 1..Len(uid_list)} = DOMAIN available_uids
        /\ \A i, j \in 1..Len(uid_list) : i # j => uid_list[i] # uid_list[j]

\* C17 witness: in a cycle after the first, with two workers both available,
\* the list is handed over in the order 1, 0.
C17_Witness ==
    /\ pcS = "dispatching"
    /\ steps_passed = 1
    /\ metagraph = 2
    /\ probe = <<"success", "success">>
    /\ uid_list = <<1, 0>>

\* C18: line 212 adds the scores of a task whose coroutine returned data once
\* and no more, also when a drain iteration raises and is retried: no task is
\* added twice, a task without data is never added, and a task removed from
\* the set after returning data was added once.
C18_ContributionAddedOnce ==
    \A t \in DOMAIN tasks :
        /\ tasks[t].added <= 1
        /\ tasks[t].outcome \in {"timeout", "raised"} => tasks[t].added = 0
        /\ (tasks[t].state = "collected" /\ tasks[t].outcome = "returned") =>
              tasks[t].added = 1

\* C19: at every call of update_weights the number of score tensors line 231
\* has added to the accumulator is steps_passed + 1, the divisor of line 158,
\* also when an earlier cycle raised after line 231 and was restarted.
C19_DivisorCountsDispatches ==
    [][(commitLog' # commitLog) => dispatch_count' = lastSteps' + 1]_vars

\* C20: the topology given to score_responses for a request is the topology
\* that was given to organic for the same request, also when the scheduler
\* refreshes the topology while the stream is in progress.
C20_SameTopologyForStreamAndScoring ==
    (task_of # 0 /\ tasks[task_of].state # "collected") =>
        tasks[task_of].metagraph = organic_metagraph

====
